---- MODULE Spec2Model ----
(***************************************************************************)
(* License-key registry and validator (src/app/routers/keys.py) and the    *)
(* update-version registry (src/app/routers/updates.py), as state machines *)
(* over the relational store.                                              *)
(*                                                                         *)
(* Python's Optional[T] is a sequence of length <= 1: None is <<>> and a   *)
(* value x is <<x>>.  Timestamps are whole days since the start of the     *)
(* run; the durations of keys.py are whole days too.                       *)
(***************************************************************************)
EXTENDS Integers, Sequences, FiniteSets, TLC

VARIABLES
    keys,       \* table key_records: key_value -> row
    nextKey,    \* number of key_value tokens generated so far
    now,        \* datetime.utcnow(), in days
    ticks,      \* clock advances so far
    last,       \* the request handled last and its response
    sess,       \* SpecConc: per-request SQLAlchemy session of a running validate
    versions,   \* table update_versions: id -> row
    nextVer,    \* number of rows inserted into update_versions so far
    stats,      \* table update_statistics, in insertion order
    rowOrder,   \* how the engine orders rows that tie in an ORDER BY
    users,      \* table users: username -> row
    otps,       \* table otp_records, in insertion order (id = position)
    mail        \* per OTP record, where its request_reset stands with the mail

vars == <<keys, nextKey, now, ticks, last, sess, versions, nextVer, stats, rowOrder,
          users, otps, mail>>

keyVars == <<keys, nextKey>>
clockVars == <<now, ticks>>
verVars == <<versions, nextVer, stats, rowOrder>>
authVars == <<users, otps, mail>>

----------------------------------------------------------------------------
(* Bounds *)

MaxKeys == 1        \* key records ever issued in one run
MaxTicks == 2       \* clock advances in one run
MaxVersions == 2    \* version records ever published in one run

----------------------------------------------------------------------------
(* Optional values and Python truthiness *)

None == <<>>
Some(x) == <<x>>

\* bool(x) for an Optional[str]: None and "" are falsy
Truthy(o) == o # None /\ o # Some("")

\* Python's  a or b
PyOr(a, b) == IF Truthy(a) THEN a ELSE b

----------------------------------------------------------------------------
(* Credentials: what the bearer token of a request decodes to *)

Callers == {"missing", "invalid", "unknown_user", "user", "admin"}

\* HTTPBearer with auto_error on: a request without a bearer credential is
\* refused before the dependency's body runs, "Not authenticated" (403; 401 in
\* later releases of the framework); 0 when a credential is handed on
bearer_scheme(caller) == IF caller = "missing" THEN 403 ELSE 0

\* a dependency that lets every user row through
admin_required_any_user(caller) ==
    IF bearer_scheme(caller) # 0 THEN bearer_scheme(caller)
    ELSE IF caller = "invalid" THEN 401
    ELSE IF caller = "unknown_user" THEN 403
    ELSE 0

\* dependencies.admin_required: 0 when the dependency passes, else the status raised
admin_required(caller) ==
    IF bearer_scheme(caller) # 0 THEN bearer_scheme(caller)
    ELSE IF caller = "invalid" THEN 401
    ELSE IF caller = "unknown_user" \/ caller # "admin" THEN 403
    ELSE 0

\* security.get_current_user: 0 when a user row is returned, else the status raised
get_current_user(caller) ==
    IF bearer_scheme(caller) # 0 THEN bearer_scheme(caller)
    ELSE IF caller = "invalid" THEN 401
    ELSE IF caller = "unknown_user" THEN 401
    ELSE 0

\* key_value tokens a request may name: 1..MaxKeys are generated in this order,
\* token 0 is a string _generate_key never returns
Tokens == 0..MaxKeys

\* what is recorded of a request that its auth dependency rejected
Denied(op, caller, status) ==
    [op |-> op, caller |-> caller, req |-> None, status |-> status,
     body |-> [detail |-> "auth"]]

----------------------------------------------------------------------------
(* Key issuance *)

TRIAL_DAYS == 7
MONTH_DAYS == 30
YEAR_DAYS == 365
LIFETIME_DAYS == 365 * 1000

\* the type strings a request may carry
TypeInputs == {"trial", "month", "year", "lifetime", " Trial", "LIFETIME ", "weekly", ""}

\* t.lower().strip() on TypeInputs
lower_strip(t) ==
    CASE t = " Trial" -> "trial"
      [] t = "LIFETIME " -> "lifetime"
      [] OTHER -> t

\* expiry_for_type with the lifetime key given no expiry at all
expiry_for_type_null_lifetime(t, utcnow) ==
    LET n == lower_strip(t) IN
    IF n = "trial" THEN Some(Some(utcnow + TRIAL_DAYS))
    ELSE IF n = "month" THEN Some(Some(utcnow + MONTH_DAYS))
    ELSE IF n = "year" THEN Some(Some(utcnow + YEAR_DAYS))
    ELSE IF n = "lifetime" THEN Some(None)
    ELSE None

\* expiry_for_type falling through to "no expiry" instead of raising
expiry_for_type_lenient(t, utcnow) ==
    LET n == lower_strip(t) IN
    IF n = "trial" THEN Some(Some(utcnow + TRIAL_DAYS))
    ELSE IF n = "month" THEN Some(Some(utcnow + MONTH_DAYS))
    ELSE IF n = "year" THEN Some(Some(utcnow + YEAR_DAYS))
    ELSE IF n = "lifetime" THEN Some(Some(utcnow + LIFETIME_DAYS))
    ELSE Some(None)

\* keys._expiry_for_type: Some(expiry), or None when it raises HTTPException(400)
expiry_for_type(t, utcnow) ==
    LET n == lower_strip(t) IN
    IF n = "trial" THEN Some(Some(utcnow + TRIAL_DAYS))
    ELSE IF n = "month" THEN Some(Some(utcnow + MONTH_DAYS))
    ELSE IF n = "year" THEN Some(Some(utcnow + YEAR_DAYS))
    ELSE IF n = "lifetime" THEN Some(Some(utcnow + LIFETIME_DAYS))
    ELSE None

\* KeyRecord(...) as create_key builds it; the columns it does not set are NULL
NewKeyRecord(expired_at, note, created_at) ==
    [ is_active |-> TRUE,
      created_at |-> created_at,
      expired_at |-> expired_at,
      note |-> note,
      machine_name |-> None,
      os_version |-> None,
      revit_version |-> None,
      cpu_info |-> None,
      ip_address |-> None,
      machine_hash |-> None,
      last_check |-> None ]

\* KeyResponse(**record.__dict__)
KeyResponse(k, r) == [key_value |-> k] @@ r

CreateNotes == {None, Some("n1")}

\* a rejected caller's request is rejected whatever it carries: one request each
CreateRequests ==
    {<<"admin", t, n>> : t \in TypeInputs, n \in CreateNotes}
        \cup {<<c, "trial", None>> : c \in Callers \ {"admin"}}

create_key(caller, type, note) ==
    /\ nextKey < MaxKeys
    /\ LET auth == admin_required(caller)
           key_value == nextKey + 1
           exp == expiry_for_type(type, now)
           req == [type |-> type, note |-> note]
       IN
       IF auth # 0 THEN
           /\ last' = Denied("create_key", caller, auth)
           /\ UNCHANGED <<keys, nextKey>>
       ELSE IF exp = None THEN
           \* _generate_key() has run; the exception precedes db.add
           /\ last' = [op |-> "create_key", caller |-> caller, req |-> req,
                       status |-> 400,
                       body |-> [detail |-> "Invalid type: must be trial/month/year/lifetime"]]
           /\ UNCHANGED <<keys, nextKey>>
       ELSE
           LET record == NewKeyRecord(exp[1], note, now) IN
           /\ keys' = (key_value :> record) @@ keys
           /\ nextKey' = key_value
           /\ last' = [op |-> "create_key", caller |-> caller, req |-> req,
                       status |-> 200, body |-> KeyResponse(key_value, record)]
    /\ UNCHANGED <<authVars, clockVars, sess, verVars>>

list_keys(caller) ==
    /\ LET auth == admin_required(caller) IN
       IF auth # 0 THEN
           last' = Denied("list_keys", caller, auth)
       ELSE
           \* order_by(KeyRecord.id.desc()): ids grow with key_value here
           last' = [op |-> "list_keys", caller |-> caller, req |-> None,
                    status |-> 200,
                    body |-> [k \in DOMAIN keys |-> KeyResponse(k, keys[k])]]
    /\ UNCHANGED <<authVars, keyVars, clockVars, sess, verVars>>

get_key(caller, key_value) ==
    /\ LET auth == admin_required(caller) IN
       IF auth # 0 THEN
           last' = Denied("get_key", caller, auth)
       ELSE IF key_value \notin DOMAIN keys THEN
           last' = [op |-> "get_key", caller |-> caller, req |-> key_value,
                    status |-> 404, body |-> [detail |-> "Key not found"]]
       ELSE
           last' = [op |-> "get_key", caller |-> caller, req |-> key_value,
                    status |-> 200, body |-> KeyResponse(key_value, keys[key_value])]
    /\ UNCHANGED <<authVars, keyVars, clockVars, sess, verVars>>

\* KeyUpdateRequest: both fields Optional, default None
KeyPatches ==
    [is_active : {None, Some(TRUE), Some(FALSE)}, note : {None, Some("n2")}]

\* apply_key_patch assigning both fields whether or not the payload has them
apply_key_patch_overwrite(record, payload) ==
    [record EXCEPT
        !.is_active = payload.is_active = Some(TRUE),
        !.note = payload.note]

UpdateRequests ==
    {<<"admin", k, p>> : k \in Tokens, p \in KeyPatches}
        \cup {<<c, 1, [is_active |-> Some(FALSE), note |-> None]>> : c \in Callers \ {"admin"}}

\* a patch whose re-activation also lifts the expiry
apply_key_patch_renewing(record, payload) ==
    [record EXCEPT
        !.is_active = IF payload.is_active # None THEN payload.is_active[1] ELSE @,
        !.expired_at = IF payload.is_active = Some(TRUE) THEN None ELSE @,
        !.note = IF payload.note # None THEN payload.note ELSE @]

\* update_key, lines 66-69: a field is assigned only when the payload's is not None
apply_key_patch(record, payload) ==
    [record EXCEPT
        !.is_active = IF payload.is_active # None THEN payload.is_active[1] ELSE @,
        !.note = IF payload.note # None THEN payload.note ELSE @]

update_key(caller, key_value, payload) ==
    /\ LET auth == admin_required(caller)
           req == [key_value |-> key_value, payload |-> payload]
       IN
       IF auth # 0 THEN
           /\ last' = Denied("update_key", caller, auth)
           /\ UNCHANGED keys
       ELSE IF key_value \notin DOMAIN keys THEN
           /\ last' = [op |-> "update_key", caller |-> caller, req |-> req,
                       status |-> 404, body |-> [detail |-> "Key not found"]]
           /\ UNCHANGED keys
       ELSE
           LET record == apply_key_patch(keys[key_value], payload) IN
           /\ keys' = [keys EXCEPT ![key_value] = record]
           /\ last' = [op |-> "update_key", caller |-> caller, req |-> req,
                       status |-> 200, body |-> KeyResponse(key_value, record)]
    /\ UNCHANGED <<authVars, nextKey, clockVars, sess, verVars>>

delete_key(caller, key_value) ==
    /\ LET auth == admin_required(caller) IN
       IF auth # 0 THEN
           /\ last' = Denied("delete_key", caller, auth)
           /\ UNCHANGED keys
       ELSE IF key_value \notin DOMAIN keys THEN
           /\ last' = [op |-> "delete_key", caller |-> caller, req |-> key_value,
                       status |-> 404, body |-> [detail |-> "Key not found"]]
           /\ UNCHANGED keys
       ELSE
           /\ keys' = [k \in DOMAIN keys \ {key_value} |-> keys[k]]
           /\ last' = [op |-> "delete_key", caller |-> caller, req |-> key_value,
                       status |-> 200, body |-> [detail |-> "Deleted"]]
    /\ UNCHANGED <<authVars, nextKey, clockVars, sess, verVars>>

----------------------------------------------------------------------------
(* Key validation *)

\* machine descriptions a client may send (KeyValidateRequest without key_value)
Machines ==
    { [machine_name |-> None, os_version |-> None, revit_version |-> None,
       cpu_info |-> None, ip_address |-> None, machine_hash |-> None],
      [machine_name |-> Some(""), os_version |-> Some(""), revit_version |-> Some(""),
       cpu_info |-> Some(""), ip_address |-> Some(""), machine_hash |-> Some("")],
      [machine_name |-> Some("pcA"), os_version |-> Some("win10"),
       revit_version |-> Some("2023"), cpu_info |-> Some("i7"),
       ip_address |-> Some("10.0.0.1"), machine_hash |-> Some("H1")],
      [machine_name |-> Some("pcB"), os_version |-> None,
       revit_version |-> Some("2024"), cpu_info |-> Some(""),
       ip_address |-> Some("10.0.0.2"), machine_hash |-> Some("H2")] }

ValidatePayloads == {[key_value |-> k] @@ m : k \in Tokens, m \in Machines}

\* is_expired with the comparison turned round
is_expired_reversed(record, utcnow) ==
    record.expired_at # None /\ record.expired_at[1] > utcnow

\* validate, line 110: record.expired_at and record.expired_at < datetime.utcnow()
is_expired(record, utcnow) ==
    record.expired_at # None /\ record.expired_at[1] < utcnow

\* validate_outcome without the is_active test
validate_outcome_no_lock(found, record, utcnow) ==
    IF ~found THEN "not_found"
    ELSE IF is_expired(record, utcnow) THEN "expired"
    ELSE "valid"

\* validate_outcome with the expiry test ahead of the is_active test
validate_outcome_expiry_first(found, record, utcnow) ==
    IF ~found THEN "not_found"
    ELSE IF is_expired(record, utcnow) THEN "expired"
    ELSE IF ~record.is_active THEN "locked"
    ELSE "valid"

\* validate, lines 92-116: which return statement the record leads to
validate_outcome(found, record, utcnow) ==
    IF ~found THEN "not_found"
    ELSE IF ~record.is_active THEN "locked"
    ELSE IF is_expired(record, utcnow) THEN "expired"
    ELSE "valid"

\* bind_machine_hash where the latest non-empty hash wins
bind_machine_hash_last_wins(stored, incoming) ==
    IF Truthy(incoming) THEN incoming ELSE stored

\* validate, lines 126-127: machine_hash is written only while it is falsy
bind_machine_hash(stored, incoming) ==
    IF ~Truthy(stored) THEN incoming ELSE stored

\* refresh_field assigning the payload's value as it comes
refresh_field_overwrite(incoming, stored) == incoming

\* validate, lines 119-123: payload.x or record.x
refresh_field(incoming, stored) == PyOr(incoming, stored)

\* validate, lines 119-129: the attribute assignments of the valid path
refresh_record(record, payload, utcnow) ==
    [record EXCEPT
        !.machine_name = refresh_field(payload.machine_name, @),
        !.os_version = refresh_field(payload.os_version, @),
        !.revit_version = refresh_field(payload.revit_version, @),
        !.cpu_info = refresh_field(payload.cpu_info, @),
        !.ip_address = refresh_field(payload.ip_address, @),
        !.machine_hash = bind_machine_hash(@, payload.machine_hash),
        !.last_check = Some(utcnow)]

\* validate_response reporting is_active as the row has it in every outcome
validate_response_stored_flag(outcome, record) ==
    CASE outcome = "not_found" ->
            [valid |-> FALSE, is_active |-> record.is_active, expired_at |-> None,
             note |-> Some("Key not found")]
      [] outcome = "locked" ->
            [valid |-> FALSE, is_active |-> record.is_active,
             expired_at |-> record.expired_at, note |-> Some("Key is locked")]
      [] outcome = "expired" ->
            [valid |-> FALSE, is_active |-> record.is_active,
             expired_at |-> record.expired_at, note |-> Some("Key expired")]
      [] OTHER ->
            [valid |-> TRUE, is_active |-> record.is_active,
             expired_at |-> record.expired_at,
             machine_hash |-> record.machine_hash,
             note |-> PyOr(record.note, Some("Valid license"))]

\* validate, lines 93-116 and 133-139: the response of each outcome
validate_response(outcome, record) ==
    CASE outcome = "not_found" ->
            [valid |-> FALSE, is_active |-> FALSE, expired_at |-> None,
             note |-> Some("Key not found")]
      [] outcome = "locked" ->
            [valid |-> FALSE, is_active |-> FALSE, expired_at |-> record.expired_at,
             note |-> Some("Key is locked")]
      [] outcome = "expired" ->
            [valid |-> FALSE, is_active |-> TRUE, expired_at |-> record.expired_at,
             note |-> Some("Key expired")]
      [] OTHER ->
            [valid |-> TRUE, is_active |-> TRUE, expired_at |-> record.expired_at,
             machine_hash |-> record.machine_hash,
             note |-> PyOr(record.note, Some("Valid license"))]

\* a row for keys that exist in no table; never read past the not_found test
NoRecord == NewKeyRecord(None, None, 0)

validate(payload) ==
    /\ LET k == payload.key_value
           found == k \in DOMAIN keys
           record == IF found THEN keys[k] ELSE NoRecord
           outcome == validate_outcome(found, record, now)
       IN
       IF outcome = "valid" THEN
           LET fresh == refresh_record(record, payload, now) IN
           /\ keys' = [keys EXCEPT ![k] = fresh]
           /\ last' = [op |-> "validate", caller |-> "none", req |-> payload,
                       status |-> 200, body |-> validate_response(outcome, fresh)]
       ELSE
           /\ UNCHANGED keys
           /\ last' = [op |-> "validate", caller |-> "none", req |-> payload,
                       status |-> 200, body |-> validate_response(outcome, record)]
    /\ UNCHANGED <<authVars, nextKey, clockVars, sess, verVars>>

----------------------------------------------------------------------------
(* The users table (src/app/main.py, src/app/core/security.py) *)

\* pwd_context.hash(password): a digest that verifies against that password only
get_password_hash(password) == [hash_of |-> password]

\* the admin row main.py inserts at start-up, and one ordinary account
SeedUsers ==
    [ admin |-> [email |-> "admin@example.com",
                 password_hash |-> get_password_hash("@Abc12324"), updated_at |-> 0],
      user  |-> [email |-> "user@example.com",
                 password_hash |-> get_password_hash("user-pass"), updated_at |-> 0] ]

\* no password reset was ever asked for
NoResets ==
    /\ users = SeedUsers
    /\ otps = <<>>
    /\ mail = <<>>

----------------------------------------------------------------------------
(* The clock *)

\* the clock moves on by a day, or to the next expiry of a stored key
TickTargets ==
    {now + 1} \cup {keys[k].expired_at[1] : k \in {j \in DOMAIN keys :
                        keys[j].expired_at # None /\ keys[j].expired_at[1] > now}}

NoRequest == [op |-> "none", caller |-> "none", req |-> None, status |-> 0, body |-> None]

Tick(t) ==
    /\ ticks < MaxTicks
    /\ now' = t
    /\ ticks' = ticks + 1
    /\ last' = NoRequest
    /\ UNCHANGED <<authVars, keyVars, sess, verVars>>

----------------------------------------------------------------------------
(* The key registry and validator, one request at a time *)

\* a row written before this process started: expired_at is a nullable column
LegacyKey == NewKeyRecord(None, None, 0)

Init ==
    /\ \/ keys = <<>> /\ nextKey = 0
       \/ keys = (1 :> LegacyKey) /\ nextKey = 1
    /\ now = 0
    /\ ticks = 0
    /\ last = NoRequest
    /\ sess = <<>>
    /\ NoResets
    /\ versions = <<>>
    /\ nextVer = 0
    /\ stats = <<>>
    /\ rowOrder = "asc"

Next ==
    \/ \E r \in CreateRequests : create_key(r[1], r[2], r[3])
    \/ \E c \in Callers : list_keys(c)
    \/ \E c \in Callers, k \in Tokens : get_key(c, k)
    \/ \E r \in UpdateRequests : update_key(r[1], r[2], r[3])
    \/ \E c \in Callers, k \in Tokens : delete_key(c, k)
    \/ \E p \in ValidatePayloads : validate(p)
    \/ \E t \in TickTargets : Tick(t)

Spec == Init /\ [][Next]_vars

----------------------------------------------------------------------------
(* validate calls that overlap.  The handler is a plain def, which FastAPI   *)
(* runs on a thread pool; get_db gives every request a Session of its own    *)
(* (autoflush off, expire_on_commit on).  A call touches the database three  *)
(* times: the SELECT of line 87, the UPDATE and COMMIT of line 130, and the  *)
(* reload of the expired row when line 136 reads it.  Nothing in the code    *)
(* locks the row or tests the UPDATE against what was read.                  *)

NumWorkers == 2

Workers == 1..NumWorkers

KeyColumns ==
    {"is_active", "created_at", "expired_at", "note", "machine_name", "os_version",
     "revit_version", "cpu_info", "ip_address", "machine_hash", "last_check"}

Idle == [pc |-> "idle", payload |-> None, loaded |-> None, dirty |-> None, resp |-> None]

\* lines 87-129: the SELECT, the outcome, and the attribute assignments made on
\* the session's copy of the row
validate_begin(w, payload) ==
    /\ sess[w].pc = "idle"
    /\ LET k == payload.key_value
           found == k \in DOMAIN keys
           record == IF found THEN keys[k] ELSE NoRecord
           outcome == validate_outcome(found, record, now)
       IN
       IF outcome = "valid" THEN
           sess' = [sess EXCEPT ![w] =
                       [pc |-> "assigned", payload |-> payload, loaded |-> record,
                        dirty |-> refresh_record(record, payload, now), resp |-> None]]
       ELSE
           sess' = [sess EXCEPT ![w] =
                       [pc |-> "done", payload |-> payload, loaded |-> None,
                        dirty |-> None, resp |-> validate_response(outcome, record)]]
    /\ UNCHANGED <<authVars, keyVars, clockVars, last, verVars>>

\* the UPDATE a flush emits: the columns whose value differs from the loaded one
flushed_row(row, loaded, dirty) ==
    [c \in KeyColumns |-> IF dirty[c] # loaded[c] THEN dirty[c] ELSE row[c]]

\* line 130: db.commit() flushes the UPDATE by primary key and commits
validate_commit(w) ==
    /\ sess[w].pc = "assigned"
    /\ LET k == sess[w].payload.key_value IN
       /\ k \in DOMAIN keys
       /\ keys' = [keys EXCEPT ![k] = flushed_row(@, sess[w].loaded, sess[w].dirty)]
    /\ sess' = [sess EXCEPT ![w].pc = "committed"]
    /\ UNCHANGED <<authVars, nextKey, clockVars, last, verVars>>

\* lines 133-139: the commit expired the instance, so building the response
\* reloads the row as the database has it now
validate_return(w) ==
    /\ sess[w].pc = "committed"
    /\ LET k == sess[w].payload.key_value IN
       /\ k \in DOMAIN keys
       /\ sess' = [sess EXCEPT ![w].pc = "done",
                               ![w].resp = validate_response("valid", keys[k])]
    /\ UNCHANGED <<authVars, keyVars, clockVars, last, verVars>>

\* no request runs yet; the table is empty and the admin issues keys
ConcInit ==
    /\ keys = <<>>
    /\ nextKey = 0
    /\ now = 0
    /\ ticks = 0
    /\ last = NoRequest
    /\ sess = [w \in Workers |-> Idle]
    /\ NoResets
    /\ versions = <<>>
    /\ nextVer = 0
    /\ stats = <<>>
    /\ rowOrder = "asc"

\* rows are only inserted and updated here, never deleted, so the UPDATE of a
\* commit always finds its row
ConcNext ==
    \/ \E n \in CreateNotes : create_key("admin", "trial", n)
    \/ \E w \in Workers, p \in ValidatePayloads : validate_begin(w, p)
    \/ \E w \in Workers : validate_commit(w)
    \/ \E w \in Workers : validate_return(w)
    \/ \E t \in TickTargets : Tick(t)

SpecConc == ConcInit /\ [][ConcNext]_vars

----------------------------------------------------------------------------
(* The version registry (src/app/routers/updates.py).  A version string is  *)
(* the sequence of its characters.                                           *)

V_1_0_0_0 == <<"1", ".", "0", ".", "0", ".", "0">>
V_2_0 == <<"2", ".", "0">>
V_1_2_0_0 == <<"1", ".", "2", ".", "0", ".", "0">>
V_1_2_1_0 == <<"1", ".", "2", ".", "1", ".", "0">>
V_2_0_0_0 == <<"2", ".", "0", ".", "0", ".", "0">>

VersionInputs == {V_1_0_0_0, V_2_0}

V_1_2 == <<"1", ".", "2">>
V_1_10_0_0 == <<"1", ".", "1", "0", ".", "0", ".", "0">>
V_1_9_0_0 == <<"1", ".", "9", ".", "0", ".", "0">>
V_1_5_0_0 == <<"1", ".", "5", ".", "0", ".", "0">>
V_v1_2_1 == <<"v", "1", ".", "2", ".", "1">>
V_padded_1_2 == <<" ", "1", ".", "2", " ">>
V_1_2_0_0_7 == <<"1", ".", "2", ".", "0", ".", "0", ".", "7">>
V_1_x == <<"1", ".", "x">>
V_empty == <<>>
V_1__2 == <<"1", ".", ".", "2">>

\* dotted decimal version strings, with the marks parse_version strips
DottedVersions ==
    {V_1_0_0_0, V_2_0, V_1_2_0_0, V_1_2_1_0, V_2_0_0_0, V_1_2, V_1_10_0_0,
     V_1_9_0_0, V_1_5_0_0, V_v1_2_1, V_padded_1_2, V_1_2_0_0_7}

\* strings with a component int() refuses
MalformedVersions == {V_1_x, V_empty, V_1__2}

Digits == {"0", "1", "2", "3", "4", "5", "6", "7", "8", "9"}

DigitValue ==
    ("0" :> 0) @@ ("1" :> 1) @@ ("2" :> 2) @@ ("3" :> 3) @@ ("4" :> 4) @@
    ("5" :> 5) @@ ("6" :> 6) @@ ("7" :> 7) @@ ("8" :> 8) @@ ("9" :> 9)

RECURSIVE lstrip(_, _)
\* str.lstrip(chars)
lstrip(s, cs) ==
    IF s # <<>> /\ Head(s) \in cs THEN lstrip(Tail(s), cs) ELSE s

RECURSIVE rstrip(_, _)
rstrip(s, cs) ==
    IF s # <<>> /\ s[Len(s)] \in cs THEN rstrip(SubSeq(s, 1, Len(s) - 1), cs) ELSE s

\* str.strip(): whitespace off both ends
strip(s) == rstrip(lstrip(s, {" "}), {" "})

RECURSIVE split(_, _)
\* str.split(sep): the pieces between separators, empty pieces kept
split(s, sep) ==
    IF \E i \in 1..Len(s) : s[i] = sep
    THEN LET i == CHOOSE k \in 1..Len(s) :
                     s[k] = sep /\ \A j \in 1..(k - 1) : s[j] # sep
         IN <<SubSeq(s, 1, i - 1)>> \o split(SubSeq(s, i + 1, Len(s)), sep)
    ELSE <<s>>

RECURSIVE decimal(_)
decimal(ds) ==
    IF ds = <<>> THEN 0
    ELSE 10 * decimal(SubSeq(ds, 1, Len(ds) - 1)) + DigitValue[ds[Len(ds)]]

\* int(p) of a piece: Some(n) for a run of digits (surrounding whitespace
\* allowed), None where int raises ValueError
int(p) ==
    LET ds == strip(p) IN
    IF ds # <<>> /\ \A i \in 1..Len(ds) : ds[i] \in Digits
    THEN Some(decimal(ds)) ELSE None

\* the pieces as split gives them, without the padding to four
parse_version_no_pad(version_str) ==
    LET parts == split(lstrip(strip(version_str), {"v", "V"}), ".")
        first == SubSeq(parts, 1, IF Len(parts) < 4 THEN Len(parts) ELSE 4)
    IN IF \E i \in 1..Len(first) : int(first[i]) = None THEN None
       ELSE Some([i \in 1..Len(first) |-> int(first[i])[1]])

\* parse_version: Some(tuple), or None where it raises ValueError
parse_version(version_str) ==
    LET parts == split(lstrip(strip(version_str), {"v", "V"}), ".")
        padded == IF Len(parts) < 4
                  THEN parts \o [i \in 1..(4 - Len(parts)) |-> <<"0">>]
                  ELSE parts
        first == SubSeq(padded, 1, 4)
    IN IF \E i \in 1..4 : int(first[i]) = None THEN None
       ELSE Some([i \in 1..4 |-> int(first[i])[1]])

\* Python's tuple < tuple: the first differing position decides, then a proper
\* prefix is the smaller
tuple_lt(x, y) ==
    \/ \E i \in 1..Len(x) :
          /\ i <= Len(y)
          /\ \A j \in 1..(i - 1) : x[j] = y[j]
          /\ x[i] < y[i]
    \/ /\ Len(x) < Len(y)
       /\ \A j \in 1..Len(x) : x[j] = y[j]

\* three version strings handed to parse_version
ParseInputs == DottedVersions \cup MalformedVersions

ParseInit ==
    /\ keys = <<>>
    /\ nextKey = 0
    /\ now = 0
    /\ ticks = 0
    /\ sess = <<>>
    /\ NoResets
    /\ versions = <<>>
    /\ nextVer = 0
    /\ stats = <<>>
    /\ rowOrder = "asc"
    /\ \E a, b, c \in ParseInputs :
          last = [op |-> "input", caller |-> "none", req |-> <<a, b, c>>,
                  status |-> 0, body |-> None]

parse_versions ==
    /\ last.op = "input"
    /\ last' = [last EXCEPT !.op = "parse_version",
                            !.body = [i \in 1..3 |-> parse_version(last.req[i])]]
    /\ UNCHANGED <<authVars, keyVars, clockVars, sess, verVars>>

ParseNext == parse_versions

SpecParse == ParseInit /\ [][ParseNext]_vars

\* os.path.getsize of the artifact when download_url names a local file
ARTIFACT_BYTES == 9

\* VersionCreate bodies, each with what os.path.exists(download_url) finds:
\* None when no such file is on the server's disk, else the file's size
VersionCreates ==
    { [version |-> v, release_notes |-> "notes", download_url |-> "/srv/rel.zip",
       checksum_sha256 |-> "c0ffee", update_type |-> "optional",
       file_size |-> fs[1], force_update |-> FALSE,
       min_required_version |-> V_1_0_0_0, on_disk |-> fs[2]] :
         v \in VersionInputs,
         fs \in {<<None, None>>, <<Some(0), Some(ARTIFACT_BYTES)>>,
                 <<Some(5), Some(ARTIFACT_BYTES)>>} }

\* create_version, lines 398-406: data.file_size or 0, then the artifact's size
\* when that is not positive, download_url is non-empty and the file exists
computed_file_size(data) ==
    LET given == IF data.file_size = None THEN 0 ELSE data.file_size[1] IN
    IF given <= 0 /\ data.download_url # "" /\ data.on_disk # None
    THEN data.on_disk[1] ELSE given

\* UpdateVersion(...) as create_version builds it; created_at and updated_at
\* take their column default, datetime.utcnow
NewVersionRecord(data, utcnow) ==
    [ version |-> data.version,
      release_date |-> utcnow,
      release_notes |-> Some(data.release_notes),
      download_url |-> data.download_url,
      file_size |-> computed_file_size(data),
      checksum_sha256 |-> data.checksum_sha256,
      update_type |-> data.update_type,
      force_update |-> data.force_update,
      min_required_version |-> data.min_required_version,
      is_active |-> TRUE,
      created_at |-> utcnow,
      updated_at |-> utcnow ]

\* the id an INTEGER PRIMARY KEY gets on insert: one more than the largest in
\* the table
next_version_id == 
    IF DOMAIN versions = {} THEN 1
    ELSE 1 + CHOOSE i \in DOMAIN versions : \A j \in DOMAIN versions : j <= i

\* func.count over update_statistics, as update_version and the public
\* listings compute it
download_count(v) ==
    Cardinality({i \in DOMAIN stats :
        stats[i].target_version = Some(v) /\ stats[i].action = "download"})

install_count(v) ==
    Cardinality({i \in DOMAIN stats :
        /\ stats[i].target_version = Some(v)
        /\ stats[i].action = "install"
        /\ stats[i].status = Some("success")})

\* the response model: the row's columns without updated_at
VersionResponse(id, r) ==
    [id |-> id] @@ [c \in DOMAIN r \ {"updated_at"} |-> r[c]]

\* callers get_current_user lets through, and one request for each it rejects
VersionCallers == {c \in Callers : get_current_user(c) = 0}

VersionCreateRequests ==
    {<<c, d>> : c \in VersionCallers, d \in VersionCreates}
        \cup {<<c, CHOOSE d \in VersionCreates : TRUE>> : c \in Callers \ VersionCallers}

\* a lookup that never finds the version
existing_never(version) == FALSE

\* create_version, line 393: a row with this version string is in the table
existing(version) == \E i \in DOMAIN versions : versions[i].version = version

create_version(caller, data) ==
    /\ nextVer < MaxVersions
    /\ LET auth == get_current_user(caller) IN
       IF auth # 0 THEN
           /\ last' = Denied("create_version", caller, auth)
           /\ UNCHANGED <<versions, nextVer>>
       ELSE IF existing(data.version) THEN
           /\ last' = [op |-> "create_version", caller |-> caller, req |-> data,
                       status |-> 400, body |-> [detail |-> "already exists"]]
           /\ UNCHANGED <<versions, nextVer>>
       ELSE
           LET id == next_version_id
               new_version == NewVersionRecord(data, now)
           IN
           /\ versions' = (id :> new_version) @@ versions
           /\ nextVer' = nextVer + 1
           /\ last' = [op |-> "create_version", caller |-> caller, req |-> data,
                       status |-> 200, body |-> VersionResponse(id, new_version)]
    /\ UNCHANGED <<authVars, keyVars, clockVars, sess, stats, rowOrder>>

\* ids a request may name: every id the table can hold
VersionIds == 1..MaxVersions

\* VersionUpdate bodies as model_dump(exclude_unset=True) gives them: only the
\* fields the client sent, a field sent as null being None
VersionPatches ==
    { <<>>,
      [is_active |-> Some(TRUE)],
      [is_active |-> None],
      [version |-> Some(V_2_0), release_notes |-> Some("fixed"),
       update_type |-> Some("mandatory")] }

\* columns declared Mapped[T] without Optional are NOT NULL
NotNullColumns ==
    {"version", "release_date", "download_url", "file_size", "checksum_sha256",
     "update_type", "force_update", "min_required_version", "is_active",
     "created_at", "updated_at"}

\* the dumped fields with "version" left in
patched_fields_with_version(patch) == DOMAIN patch

\* update_version, lines 454-465: the dumped fields without "version", set on
\* the row one by one
patched_fields(patch) == DOMAIN patch \ {"version"}

\* the commit fails on a NULL assigned to a NOT NULL column
violates_not_null(patch) ==
    \E c \in patched_fields(patch) \cap NotNullColumns : patch[c] = None

\* the row after the setattr loop (release_notes, the one nullable column, is
\* held as an optional value)
apply_version_patch(row, patch) ==
    [c \in DOMAIN row |->
        IF c \in patched_fields(patch)
        THEN (IF c = "release_notes" THEN patch[c] ELSE patch[c][1])
        ELSE row[c]]

\* the UPDATE of a commit: nothing is sent for an unchanged row, a changed row
\* gets updated_at from its onupdate
touched(row, changed, utcnow) ==
    IF changed = row THEN row ELSE [changed EXCEPT !.updated_at = utcnow]

VersionUpdateRequests ==
    {<<c, i, p>> : c \in VersionCallers, i \in VersionIds, p \in VersionPatches}
        \cup {<<c, 1, <<>>>> : c \in Callers \ VersionCallers}

update_version(caller, version_id, patch) ==
    /\ LET auth == get_current_user(caller)
           req == [version_id |-> version_id, version_data |-> patch]
       IN
       IF auth # 0 THEN
           /\ last' = Denied("update_version", caller, auth)
           /\ UNCHANGED versions
       ELSE IF version_id \notin DOMAIN versions THEN
           /\ last' = [op |-> "update_version", caller |-> caller, req |-> req,
                       status |-> 404, body |-> [detail |-> "Version not found"]]
           /\ UNCHANGED versions
       ELSE
           IF violates_not_null(patch) THEN
               \* the except branch: rollback, 400
               /\ last' = [op |-> "update_version", caller |-> caller, req |-> req,
                           status |-> 400, body |-> [detail |-> "Update failed"]]
               /\ UNCHANGED versions
           ELSE
               LET changed == apply_version_patch(versions[version_id], patch)
                   row == touched(versions[version_id], changed, now)
               IN
               /\ versions' = [versions EXCEPT ![version_id] = row]
               /\ last' = [op |-> "update_version", caller |-> caller, req |-> req,
                           status |-> 200,
                           body |-> VersionResponse(version_id, row) @@
                                    [download_count |-> download_count(row.version),
                                     install_count |-> install_count(row.version)]]
    /\ UNCHANGED <<authVars, keyVars, clockVars, sess, nextVer, stats, rowOrder>>

VersionIdRequests ==
    {<<c, i>> : c \in VersionCallers, i \in VersionIds}
        \cup {<<c, 1>> : c \in Callers \ VersionCallers}

deactivate_version(caller, version_id) ==
    /\ LET auth == get_current_user(caller) IN
       IF auth # 0 THEN
           /\ last' = Denied("deactivate_version", caller, auth)
           /\ UNCHANGED versions
       ELSE IF version_id \notin DOMAIN versions THEN
           /\ last' = [op |-> "deactivate_version", caller |-> caller, req |-> version_id,
                       status |-> 404, body |-> [detail |-> "Version not found"]]
           /\ UNCHANGED versions
       ELSE
           LET row == versions[version_id] IN
           /\ versions' = [versions EXCEPT ![version_id] =
                              touched(row, [row EXCEPT !.is_active = FALSE], now)]
           /\ last' = [op |-> "deactivate_version", caller |-> caller, req |-> version_id,
                       status |-> 200,
                       body |-> [status |-> "deactivated", version |-> row.version]]
    /\ UNCHANGED <<authVars, keyVars, clockVars, sess, nextVer, stats, rowOrder>>

\* a delete that takes the version's statistic rows with it
delete_version_cascade(caller, version_id) ==
    /\ version_id \in DOMAIN versions
    /\ get_current_user(caller) = 0
    /\ versions' = [i \in DOMAIN versions \ {version_id} |-> versions[i]]
    /\ stats' = SelectSeq(stats,
                  LAMBDA r : r.target_version # Some(versions[version_id].version))
    /\ last' = [op |-> "delete_version", caller |-> caller, req |-> version_id,
                status |-> 200,
                body |-> [status |-> "deleted", version |-> versions[version_id].version]]
    /\ UNCHANGED <<authVars, keyVars, clockVars, sess, nextVer, rowOrder>>

delete_version(caller, version_id) ==
    /\ LET auth == get_current_user(caller) IN
       IF auth # 0 THEN
           /\ last' = Denied("delete_version", caller, auth)
           /\ UNCHANGED versions
       ELSE IF version_id \notin DOMAIN versions THEN
           /\ last' = [op |-> "delete_version", caller |-> caller, req |-> version_id,
                       status |-> 404, body |-> [detail |-> "Version not found"]]
           /\ UNCHANGED versions
       ELSE
           /\ versions' = [i \in DOMAIN versions \ {version_id} |-> versions[i]]
           /\ last' = [op |-> "delete_version", caller |-> caller, req |-> version_id,
                       status |-> 200,
                       body |-> [status |-> "deleted",
                                 version |-> versions[version_id].version]]
    /\ UNCHANGED <<authVars, keyVars, clockVars, sess, nextVer, stats, rowOrder>>

\* the tables as create_all leaves them
VerInit ==
    /\ keys = <<>>
    /\ nextKey = 0
    /\ now = 0
    /\ ticks = 0
    /\ last = NoRequest
    /\ sess = <<>>
    /\ NoResets
    /\ versions = <<>>
    /\ nextVer = 0
    /\ stats = <<>>
    /\ rowOrder = "asc"

VerNext ==
    \/ \E r \in VersionCreateRequests : create_version(r[1], r[2])
    \/ \E r \in VersionUpdateRequests : update_version(r[1], r[2], r[3])
    \/ \E r \in VersionIdRequests : deactivate_version(r[1], r[2])
    \/ \E r \in VersionIdRequests : delete_version(r[1], r[2])
    \/ \E t \in TickTargets : Tick(t)

SpecVer == VerInit /\ [][VerNext]_vars

----------------------------------------------------------------------------
(* The update gate and the statistics log (src/app/routers/updates.py) *)

\* UpdateStatistic(...): the columns a handler does not give are NULL,
\* timestamp takes its default datetime.utcnow
NewStatistic(machine_hash, current_version, target_version, revit_version, os_version, action, status, error_message, utcnow) ==
    [ machine_hash |-> machine_hash,
      current_version |-> current_version,
      target_version |-> target_version,
      revit_version |-> revit_version,
      os_version |-> os_version,
      action |-> action,
      status |-> status,
      error_message |-> error_message,
      timestamp |-> utcnow ]

\* rows first in release_date descending; rows that tie come in the engine's order
first_row(ids) ==
    IF rowOrder = "asc"
    THEN CHOOSE i \in ids : \A j \in ids : i <= j
    ELSE CHOOSE i \in ids : \A j \in ids : j <= i

\* a latest-row query without the is_active filter
latest_of_all ==
    LET newest == {i \in DOMAIN versions :
                      \A j \in DOMAIN versions :
                          versions[j].release_date <= versions[i].release_date}
    IN IF DOMAIN versions = {} THEN None ELSE Some(first_row(newest))

RECURSIVE order_by_release_date_desc(_)
\* order_by(desc(release_date)).all() over the rows with these ids
order_by_release_date_desc(ids) ==
    IF ids = {} THEN <<>>
    ELSE LET newest == {i \in ids :
                           \A j \in ids : versions[j].release_date <= versions[i].release_date}
             first == first_row(newest)
         IN <<first>> \o order_by_release_date_desc(ids \ {first})

\* filter(is_active == True).order_by(desc(release_date)).first(): the id of
\* the row, or None
latest_active ==
    LET active == {i \in DOMAIN versions : versions[i].is_active}
        newest == {i \in active :
                      \A j \in active : versions[j].release_date <= versions[i].release_date}
    IN IF active = {} THEN None ELSE Some(first_row(newest))

\* UpdateCheckRequest bodies
CheckVersions == {V_1_0_0_0, V_1_5_0_0, V_1_x}

UpdateCheckRequests ==
    [ product : {"SimpleBIM"}, currentVersion : CheckVersions,
      revitVersion : {"2024"}, machineHash : {"H1"}, os : {"win10"} ]

\* the gate of check_for_updates, lines 157-170, a tuple being the parse of a
\* version string
update_available(current, latest) == tuple_lt(current, latest)

\* a gate that forces the update whenever one is available
force_update_when_available(current, min_required, latest) == tuple_lt(current, latest)

force_update(current, min_required, latest) == tuple_lt(current, min_required)

effective_update_type(stored, forced) == IF forced THEN "mandatory" ELSE stored

notification_msg(forced, available) ==
    IF forced THEN "mandatory update"
    ELSE IF available THEN "new version available"
    ELSE "up to date"

\* a "no release" answer that names a fixed first version
NoReleaseResponse_first_version(request, utcnow) ==
    [ updateAvailable |-> FALSE,
      latestVersion |-> V_1_0_0_0,
      minimumRequiredVersion |-> V_1_0_0_0,
      releaseDate |-> utcnow,
      releaseNotes |-> "no release",
      downloadUrl |-> "",
      fileSize |-> 0,
      checksumSHA256 |-> "",
      updateType |-> "optional",
      forceUpdate |-> FALSE,
      notificationMessage |-> "no release" ]

\* the response of the branch with no active row, lines 142-155
NoReleaseResponse(request, utcnow) ==
    [ updateAvailable |-> FALSE,
      latestVersion |-> request.currentVersion,
      minimumRequiredVersion |-> request.currentVersion,
      releaseDate |-> utcnow,
      releaseNotes |-> "no release",
      downloadUrl |-> "",
      fileSize |-> 0,
      checksumSHA256 |-> "",
      updateType |-> "optional",
      forceUpdate |-> FALSE,
      notificationMessage |-> "no release" ]

MaxStats == 2    \* rows appended to the statistics log in one run

check_for_updates(request) ==
    /\ LET found == latest_active IN
       IF found = None THEN
           /\ last' = [op |-> "check_for_updates", caller |-> "none", req |-> request,
                       status |-> 200, body |-> NoReleaseResponse(request, now)]
           /\ UNCHANGED stats
       ELSE
           LET latest == versions[found[1]]
               current_version == parse_version(request.currentVersion)
               latest_version == parse_version(latest.version)
               min_required == parse_version(latest.min_required_version)
           IN
           IF current_version = None \/ latest_version = None \/ min_required = None THEN
               \* ValueError from int(), caught by the handler's except
               /\ last' = [op |-> "check_for_updates", caller |-> "none", req |-> request,
                           status |-> 500, body |-> [detail |-> "Update check failed"]]
               /\ UNCHANGED stats
           ELSE
               LET available == update_available(current_version[1], latest_version[1])
                   forced == force_update(current_version[1], min_required[1], latest_version[1])
               IN
               /\ Len(stats) < MaxStats
               /\ stats' = Append(stats,
                      NewStatistic(request.machineHash, Some(request.currentVersion),
                                   IF available THEN Some(latest.version) ELSE None,
                                   Some(request.revitVersion), Some(request.os),
                                   "check", Some("success"), None, now))
               /\ last' = [op |-> "check_for_updates", caller |-> "none", req |-> request,
                           status |-> 200,
                           body |-> [ updateAvailable |-> available,
                                      latestVersion |-> latest.version,
                                      minimumRequiredVersion |-> latest.min_required_version,
                                      releaseDate |-> latest.release_date,
                                      releaseNotes |-> IF Truthy(latest.release_notes)
                                                       THEN latest.release_notes[1] ELSE "",
                                      downloadUrl |-> latest.download_url,
                                      fileSize |-> latest.file_size,
                                      checksumSHA256 |-> latest.checksum_sha256,
                                      updateType |-> effective_update_type(latest.update_type, forced),
                                      forceUpdate |-> forced,
                                      notificationMessage |-> notification_msg(forced, available) ]]
    /\ UNCHANGED <<authVars, keyVars, clockVars, sess, versions, nextVer, rowOrder>>

log_download_started(version, machine_hash) ==
    /\ Len(stats) < MaxStats
    /\ stats' = Append(stats, NewStatistic(machine_hash, None, Some(version), None, None,
                                           "download", Some("started"), None, now))
    /\ last' = [op |-> "log_download_started", caller |-> "none",
                req |-> [version |-> version, machine_hash |-> machine_hash],
                status |-> 200, body |-> [status |-> "logged"]]
    /\ UNCHANGED <<authVars, keyVars, clockVars, sess, versions, nextVer, rowOrder>>

\* an install log that records every result as a success
log_install_result_always_success(version, machine_hash, success, error_message) ==
    /\ Len(stats) < MaxStats
    /\ stats' = Append(stats, NewStatistic(machine_hash, None, Some(version), None, None,
                                           "install", Some("success"), error_message, now))
    /\ last' = [op |-> "log_install_result", caller |-> "none",
                req |-> [version |-> version, machine_hash |-> machine_hash,
                         success |-> success, error_message |-> error_message],
                status |-> 200, body |-> [status |-> "logged"]]
    /\ UNCHANGED <<authVars, keyVars, clockVars, sess, versions, nextVer, rowOrder>>

log_install_result(version, machine_hash, success, error_message) ==
    /\ Len(stats) < MaxStats
    /\ stats' = Append(stats, NewStatistic(machine_hash, None, Some(version), None, None,
                                           "install",
                                           Some(IF success THEN "success" ELSE "failed"),
                                           error_message, now))
    /\ last' = [op |-> "log_install_result", caller |-> "none",
                req |-> [version |-> version, machine_hash |-> machine_hash,
                         success |-> success, error_message |-> error_message],
                status |-> 200, body |-> [status |-> "logged"]]
    /\ UNCHANGED <<authVars, keyVars, clockVars, sess, versions, nextVer, rowOrder>>

\* a latest-version read that counts itself as a download
get_latest_version_logging ==
    /\ latest_active # None
    /\ Len(stats) < MaxStats
    /\ stats' = Append(stats, NewStatistic("reader", None,
                                           Some(versions[latest_active[1]].version), None, None,
                                           "download", Some("started"), None, now))
    /\ last' = [op |-> "get_latest_version", caller |-> "none", req |-> None,
                status |-> 200,
                body |-> VersionResponse(latest_active[1], versions[latest_active[1]]) @@
                         [download_count |-> download_count(versions[latest_active[1]].version),
                          install_count |-> install_count(versions[latest_active[1]].version)]]
    /\ UNCHANGED <<authVars, keyVars, clockVars, sess, versions, nextVer, rowOrder>>

get_latest_version ==
    /\ LET found == latest_active IN
       IF found = None THEN
           last' = [op |-> "get_latest_version", caller |-> "none", req |-> None,
                    status |-> 404, body |-> [detail |-> "No active version found"]]
       ELSE
           LET latest == versions[found[1]] IN
           last' = [op |-> "get_latest_version", caller |-> "none", req |-> None,
                    status |-> 200,
                    body |-> VersionResponse(found[1], latest) @@
                             [download_count |-> download_count(latest.version),
                              install_count |-> install_count(latest.version)]]
    /\ UNCHANGED <<authVars, keyVars, clockVars, sess, verVars>>

get_public_active_versions ==
    /\ LET listed == order_by_release_date_desc({i \in DOMAIN versions : versions[i].is_active})
       IN last' = [op |-> "get_public_active_versions", caller |-> "none", req |-> None,
                   status |-> 200,
                   body |-> [n \in 1..Len(listed) |->
                                VersionResponse(listed[n], versions[listed[n]]) @@
                                [download_count |-> download_count(versions[listed[n]].version),
                                 install_count |-> install_count(versions[listed[n]].version)]]]
    /\ UNCHANGED <<authVars, keyVars, clockVars, sess, verVars>>

\* .filter(action == a).count()
count_action(a) == Cardinality({i \in DOMAIN stats : stats[i].action = a})

\* .filter(action == a, status == st).count()
count_action_status(a, st) ==
    Cardinality({i \in DOMAIN stats : stats[i].action = a /\ stats[i].status = Some(st)})

\* round(100 * s / t, 2) in hundredths of a percent, the nearest hundredth
\* (no quotient of this form with t below 8 lies halfway between two)
round_percent(s, t) == (2 * 10000 * s + t) \div (2 * t)

\* the fraction s / t, on the same scale
plain_fraction(success_installs, total_installs) ==
    IF total_installs > 0 THEN round_percent(success_installs, total_installs) \div 100
    ELSE 0

\* get_update_statistics, line 553; the float is held in hundredths (5000 is 50.0)
success_rate(success_installs, total_installs) ==
    IF total_installs > 0 THEN round_percent(success_installs, total_installs) ELSE 0

\* the GROUP BY current_version over the check rows that have one
version_distribution ==
    LET checked == {i \in DOMAIN stats :
                       stats[i].action = "check" /\ stats[i].current_version # None}
    IN [v \in {stats[i].current_version[1] : i \in checked} |->
           Cardinality({i \in checked : stats[i].current_version[1] = v})]

get_update_statistics(caller) ==
    /\ LET auth == get_current_user(caller) IN
       IF auth # 0 THEN
           last' = Denied("get_update_statistics", caller, auth)
       ELSE
           LET total_installs == count_action("install")
               success_installs == count_action_status("install", "success")
           IN
           last' = [op |-> "get_update_statistics", caller |-> caller, req |-> None,
                    status |-> 200,
                    body |-> [ total_checks |-> count_action("check"),
                               total_downloads |-> count_action("download"),
                               total_installs |-> total_installs,
                               success_installs |-> success_installs,
                               success_rate |-> success_rate(success_installs, total_installs),
                               version_distribution |-> version_distribution ]]
    /\ UNCHANGED <<authVars, keyVars, clockVars, sess, verVars>>

\* zip_created: whether create_release_zip could write its archive
download_version(version_id, zip_created) ==
    /\ IF version_id \notin DOMAIN versions THEN
           \* the HTTPException is re-raised as it is
           /\ last' = [op |-> "download_version", caller |-> "none", req |-> version_id,
                       status |-> 404, body |-> [detail |-> "Version not found"]]
           /\ UNCHANGED stats
       ELSE IF ~zip_created THEN
           /\ last' = [op |-> "download_version", caller |-> "none", req |-> version_id,
                       status |-> 500, body |-> [detail |-> "zip"]]
           /\ UNCHANGED stats
       ELSE
           /\ Len(stats) < MaxStats
           /\ stats' = Append(stats, NewStatistic("browser_download", None,
                                                  Some(versions[version_id].version), None, None,
                                                  "download", Some("web_started"), None, now))
           /\ last' = [op |-> "download_version", caller |-> "none", req |-> version_id,
                       status |-> 200,
                       body |-> [filename |-> versions[version_id].version]]
    /\ UNCHANGED <<authVars, keyVars, clockVars, sess, versions, nextVer, rowOrder>>

\* track_download, lines 662-681: its one handler is `except Exception`, and
\* HTTPException is an Exception, so the 404 raised inside the try leaves as 400
track_download(version_id, machine_hash) ==
    /\ IF version_id \notin DOMAIN versions THEN
           /\ last' = [op |-> "track_download", caller |-> "none",
                       req |-> [version_id |-> version_id, machine_hash |-> machine_hash],
                       status |-> 400, body |-> [detail |-> "Error: 404 Version not found"]]
           /\ UNCHANGED stats
       ELSE
           /\ Len(stats) < MaxStats
           /\ stats' = Append(stats, NewStatistic(PyOr(machine_hash, Some("unknown"))[1], None,
                                                  Some(versions[version_id].version), None, None,
                                                  "download", Some("web_tracked"), None, now))
           /\ last' = [op |-> "track_download", caller |-> "none",
                       req |-> [version_id |-> version_id, machine_hash |-> machine_hash],
                       status |-> 200,
                       body |-> [status |-> "success",
                                 version |-> versions[version_id].version,
                                 download_url |-> version_id]]
    /\ UNCHANGED <<authVars, keyVars, clockVars, sess, versions, nextVer, rowOrder>>

\* the two releases an admin publishes in SpecUpd
UpdCreates ==
    { [version |-> V_2_0_0_0, release_notes |-> "notes", download_url |-> "/srv/rel.zip",
       checksum_sha256 |-> "c0ffee", update_type |-> "recommended",
       file_size |-> Some(5), force_update |-> FALSE,
       min_required_version |-> V_1_5_0_0, on_disk |-> None],
      [version |-> V_1_0_0_0, release_notes |-> "notes", download_url |-> "/srv/rel.zip",
       checksum_sha256 |-> "c0ffee", update_type |-> "optional",
       file_size |-> Some(5), force_update |-> FALSE,
       min_required_version |-> V_1_0_0_0, on_disk |-> None],
      \* VersionCreate takes any two strings: a minimum above the version itself
      [version |-> V_1_0_0_0, release_notes |-> "notes", download_url |-> "/srv/rel.zip",
       checksum_sha256 |-> "c0ffee", update_type |-> "optional",
       file_size |-> Some(5), force_update |-> FALSE,
       min_required_version |-> V_1_5_0_0, on_disk |-> None] }

\* the tables on the day after an install: empty, or holding the one release
\* published the day before
UpdInit ==
    /\ keys = <<>>
    /\ nextKey = 0
    /\ now = 1
    /\ ticks = 0
    /\ last = NoRequest
    /\ sess = <<>>
    /\ NoResets
    /\ \/ versions = <<>> /\ nextVer = 0
       \/ \E d \in UpdCreates : versions = (1 :> NewVersionRecord(d, 0)) /\ nextVer = 1
    /\ stats = <<>>
    /\ rowOrder \in {"asc", "desc"}

UpdNext ==
    \/ \E d \in UpdCreates : create_version("admin", d)
    \/ \E i \in VersionIds : update_version("admin", i, [is_active |-> Some(TRUE)])
    \/ \E i \in VersionIds : deactivate_version("admin", i)
    \/ \E i \in VersionIds : delete_version("admin", i)
    \/ \E r \in UpdateCheckRequests : check_for_updates(r)
    \/ log_download_started(V_2_0_0_0, "H1")
    \/ \E ok \in BOOLEAN :
          log_install_result(V_2_0_0_0, "H1", ok, IF ok THEN None ELSE Some("boom"))
    \/ get_latest_version
    \/ get_public_active_versions
    \/ \E i \in VersionIds, z \in BOOLEAN : download_version(i, z)
    \/ \E i \in VersionIds : track_download(i, None)

SpecUpd == UpdInit /\ [][UpdNext]_vars

\* the statistics report over a log that earlier runs have written: rows as
\* log_install_result and log_download_started append them
MaxSeedRows == 3

SeedRows ==
    { NewStatistic("H1", None, Some(V_2_0_0_0), None, None, "install", Some("success"), None, 0),
      NewStatistic("H1", None, Some(V_2_0_0_0), None, None, "install", Some("failed"),
                   Some("boom"), 0),
      NewStatistic("H1", None, Some(V_2_0_0_0), None, None, "download", Some("started"), None, 0) }

StatInit ==
    /\ keys = <<>>
    /\ nextKey = 0
    /\ now = 0
    /\ ticks = 0
    /\ last = NoRequest
    /\ sess = <<>>
    /\ NoResets
    /\ versions = <<>>
    /\ nextVer = 0
    /\ stats \in UNION {[1..n -> SeedRows] : n \in 0..MaxSeedRows}
    /\ rowOrder = "asc"

StatNext ==
    \/ \E ok \in BOOLEAN :
          log_install_result(V_2_0_0_0, "H1", ok, IF ok THEN None ELSE Some("boom"))
    \/ log_download_started(V_2_0_0_0, "H1")
    \/ \E c \in Callers : get_update_statistics(c)

SpecStat == StatInit /\ [][StatNext]_vars

\* Publish, patch and delete with two spellings of one version
SameTupleInputs == {V_1_2, V_1_2_0_0}

SameTupleCreates ==
    { [version |-> v, release_notes |-> "notes", download_url |-> "/srv/rel.zip",
       checksum_sha256 |-> "c0ffee", update_type |-> "optional",
       file_size |-> Some(5), force_update |-> FALSE,
       min_required_version |-> V_1_0_0_0, on_disk |-> None] : v \in SameTupleInputs }

DupNext ==
    \/ \E d \in SameTupleCreates : create_version("admin", d)
    \/ \E i \in VersionIds, p \in VersionPatches : update_version("admin", i, p)
    \/ \E i \in VersionIds : deactivate_version("admin", i)
    \/ \E i \in VersionIds : delete_version("admin", i)
    \/ \E t \in TickTargets : Tick(t)

SpecDup == VerInit /\ [][DupNext]_vars

----------------------------------------------------------------------------
(* Password reset by one-time code (src/app/routers/auth.py).  In these    *)
(* runs the clock counts minutes.                                           *)

MaxOtps == 2    \* OTP records ever stored in one run

\* settings.OTP_EXPIRE_MINUTES
OTP_EXPIRE_MINUTES == 10

\* generate_otp(): random.randint(100000, 999999), so two calls may agree
OtpCodes == {"111111", "222222"}

\* len(new_password) of the passwords asked for
PasswordLen == [p \in {"short", "new-pass-A", "new-pass-B"} |->
                   IF p = "short" THEN 5 ELSE 10]

ResetEmails == {"admin@example.com", "nobody@example.com"}

\* RequestResetRequest bodies
RequestResets ==
    { [email |-> e, new_password |-> p, confirm_password |-> p] :
          e \in ResetEmails, p \in {"new-pass-A", "new-pass-B"} }
    \cup { [email |-> "admin@example.com", new_password |-> "short",
            confirm_password |-> "short"],
          [email |-> "admin@example.com", new_password |-> "new-pass-A",
            confirm_password |-> "new-pass-B"] }

\* VerifyResetRequest bodies
VerifyResets ==
    { [email |-> e, otp_code |-> c] :
          e \in ResetEmails \cup {"user@example.com"}, c \in OtpCodes }

\* db.query(User).filter(User.email == email).first()
user_by_email(email) ==
    LET found == {u \in DOMAIN users : users[u].email = email} IN
    IF found = {} THEN None ELSE Some(CHOOSE u \in found : TRUE)

\* OTPRecord(...): created_at takes the column default at the flush
NewOTPRecord(email, otp_code, pending_hash, utcnow) ==
    [ email |-> email,
      otp_code |-> otp_code,
      pending_password_hash |-> pending_hash,
      created_at |-> utcnow,
      expires_at |-> utcnow + OTP_EXPIRE_MINUTES,
      used |-> FALSE ]

\* request_reset up to its await: the checks, then db.add and db.commit.
\* The coroutine is then suspended in send_otp_email with no answer given yet.
request_reset(payload, otp_code) ==
    /\ IF payload.new_password # payload.confirm_password THEN
           /\ last' = [op |-> "request_reset", caller |-> "none", req |-> payload,
                       status |-> 400, body |-> [detail |-> "Passwords do not match"]]
           /\ UNCHANGED authVars
       ELSE IF PasswordLen[payload.new_password] < 8 THEN
           /\ last' = [op |-> "request_reset", caller |-> "none", req |-> payload,
                       status |-> 400, body |-> [detail |-> "Password too short"]]
           /\ UNCHANGED authVars
       ELSE IF user_by_email(payload.email) = None THEN
           /\ last' = [op |-> "request_reset", caller |-> "none", req |-> payload,
                       status |-> 404, body |-> [detail |-> "Email not found"]]
           /\ UNCHANGED authVars
       ELSE
           /\ Len(otps) < MaxOtps
           /\ otps' = Append(otps, NewOTPRecord(payload.email, otp_code,
                                   get_password_hash(payload.new_password), now))
           /\ mail' = Append(mail, "pending")
           /\ last' = [op |-> "request_reset", caller |-> "none", req |-> payload,
                       status |-> 0, body |-> None]
           /\ UNCHANGED users
    /\ UNCHANGED <<keyVars, clockVars, sess, verVars>>

\* a handler that takes the code back when the mail could not be sent
otps_after_delivery_invalidating(id, delivered) ==
    IF delivered THEN otps ELSE [otps EXCEPT ![id].used = TRUE]

\* the table after send_otp_email returned or raised: the handler has no
\* except clause and the commit came before, so the row stays as it was
otps_after_delivery(id, delivered) == otps

\* the rest of request_reset: send_otp_email returns (201 from the mail API,
\* or no API key configured) or raises, and the exception leaves the handler
send_otp_email(id, delivered) ==
    /\ mail[id] = "pending"
    /\ mail' = [mail EXCEPT ![id] = IF delivered THEN "sent" ELSE "failed"]
    /\ otps' = otps_after_delivery(id, delivered)
    /\ last' = [op |-> "request_reset", caller |-> "none",
                req |-> [email |-> otps[id].email, otp_code |-> otps[id].otp_code],
                status |-> IF delivered THEN 200 ELSE 500,
                body |-> IF delivered
                         THEN [message |-> "OTP sent to email",
                               expires_in_minutes |-> OTP_EXPIRE_MINUTES]
                         ELSE [detail |-> "Internal Server Error"]]
    /\ UNCHANGED <<users, keyVars, clockVars, sess, verVars>>

\* a lookup that does not filter on used
matching_otps_any(email, otp_code) ==
    {i \in DOMAIN otps : otps[i].email = email /\ otps[i].otp_code = otp_code}

\* filter(email == ..., otp_code == ..., used == False)
matching_otps(email, otp_code) ==
    {i \in DOMAIN otps :
        otps[i].email = email /\ otps[i].otp_code = otp_code /\ ~otps[i].used}

\* order_by(OTPRecord.created_at.desc()).first()
newest_otp(ids) ==
    IF ids = {} THEN None
    ELSE Some(first_row({i \in ids : \A j \in ids : otps[j].created_at <= otps[i].created_at}))

verify_reset(payload) ==
    /\ LET found == newest_otp(matching_otps(payload.email, payload.otp_code)) IN
       IF found = None THEN
           /\ last' = [op |-> "verify_reset", caller |-> "none", req |-> payload,
                       status |-> 400, body |-> [detail |-> "Invalid or expired OTP"]]
           /\ UNCHANGED <<users, otps>>
       ELSE IF otps[found[1]].expires_at < now THEN
           /\ last' = [op |-> "verify_reset", caller |-> "none", req |-> payload,
                       status |-> 400, body |-> [detail |-> "OTP expired"]]
           /\ UNCHANGED <<users, otps>>
       ELSE IF user_by_email(payload.email) = None THEN
           /\ last' = [op |-> "verify_reset", caller |-> "none", req |-> payload,
                       status |-> 404, body |-> [detail |-> "User not found"]]
           /\ UNCHANGED <<users, otps>>
       ELSE
           LET u == user_by_email(payload.email)[1] IN
           /\ users' = [users EXCEPT ![u].password_hash =
                                          otps[found[1]].pending_password_hash,
                                     ![u].updated_at = now]
           /\ otps' = [otps EXCEPT ![found[1]].used = TRUE]
           /\ last' = [op |-> "verify_reset", caller |-> "none", req |-> payload,
                       status |-> 200, body |-> [message |-> "Password reset successful"]]
    /\ UNCHANGED <<mail, keyVars, clockVars, sess, verVars>>

\* the clock moves on by a minute, or by the lifetime of a code
AuthTickTargets == {now + 1, now + OTP_EXPIRE_MINUTES}

AuthInit ==
    /\ keys = <<>>
    /\ nextKey = 0
    /\ now = 0
    /\ ticks = 0
    /\ last = NoRequest
    /\ sess = <<>>
    /\ NoResets
    /\ versions = <<>>
    /\ nextVer = 0
    /\ stats = <<>>
    /\ rowOrder \in {"asc", "desc"}

AuthNext ==
    \/ \E r \in RequestResets, c \in OtpCodes : request_reset(r, c)
    \/ \E i \in 1..MaxOtps, d \in BOOLEAN : i \in DOMAIN otps /\ send_otp_email(i, d)
    \/ \E r \in VerifyResets : verify_reset(r)
    \/ \E t \in AuthTickTargets : Tick(t)

SpecAuth == AuthInit /\ [][AuthNext]_vars

----------------------------------------------------------------------------
(* Properties of the key registry and validator *)

\* the step just taken was a validate call
Validated == last'.op = "validate"

MetadataFields == {"machine_name", "os_version", "revit_version", "cpu_info", "ip_address"}

BindingFields == MetadataFields \cup {"machine_hash"}

\* C1: first bind wins. Over validate and admin calls taken one at a time, a
\* stored non-empty machine_hash never changes; a valid validate on an unbound
\* key stores the request's machine_hash, and every valid validate answers
\* with the stored machine_hash (so H1 stays and is returned when H2 arrives).
C1_FirstBindWins ==
    [][ /\ \A k \in DOMAIN keys \cap DOMAIN keys' :
              Truthy(keys[k].machine_hash)
                  => keys'[k].machine_hash = keys[k].machine_hash
        /\ (Validated /\ last'.body.valid) =>
              LET k == last'.req.key_value IN
              /\ last'.body.machine_hash = keys'[k].machine_hash
              /\ ~Truthy(keys[k].machine_hash)
                    => keys'[k].machine_hash = last'.req.machine_hash
      ]_vars

\* a valid validate carrying H2 has just answered H1, the hash bound earlier
C1_Witness ==
    /\ last.op = "validate"
    /\ last.body.valid
    /\ last.req.machine_hash = Some("H2")
    /\ last.body.machine_hash = Some("H1")
    /\ keys[last.req.key_value].machine_hash = Some("H1")

\* C3: a validate call on a missing, inactive or expired record answers
\* valid=false and leaves the whole key table as it was, whatever it carries.
C3_InvalidValidateWritesNothing ==
    [][ Validated =>
          LET k == last'.req.key_value IN
          (\/ k \notin DOMAIN keys
           \/ ~keys[k].is_active
           \/ (keys[k].expired_at # None /\ keys[k].expired_at[1] < now))
              => (~last'.body.valid /\ keys' = keys)
      ]_vars

\* a locked key has just been validated from a machine whose name, hash and
\* clock all differ from what the record holds
C3_Witness ==
    /\ last.op = "validate"
    /\ last.body.note = Some("Key is locked")
    /\ Truthy(last.req.machine_name)
    /\ Truthy(last.req.machine_hash)
    /\ keys[last.req.key_value].machine_name # last.req.machine_name
    /\ keys[last.req.key_value].machine_hash # last.req.machine_hash
    /\ keys[last.req.key_value].last_check # Some(now)

\* C4: a record whose expired_at is set and earlier than the clock is answered
\* valid=false whatever its is_active and the payload; a record without
\* expired_at is never answered "Key expired".
C4_ExpiredNeverValid ==
    (last.op = "validate" /\ last.req.key_value \in DOMAIN keys) =>
        LET record == keys[last.req.key_value] IN
        /\ (record.expired_at # None /\ record.expired_at[1] < now)
              => ~last.body.valid
        /\ record.expired_at = None
              => last.body.note # Some("Key expired")

\* an active key past its expiry has just been refused
C4_Witness ==
    /\ last.op = "validate"
    /\ last.req.key_value \in DOMAIN keys
    /\ keys[last.req.key_value].is_active
    /\ keys[last.req.key_value].expired_at # None
    /\ keys[last.req.key_value].expired_at[1] < now
    /\ ~last.body.valid

\* C5: a valid validate stores, for each metadata field on its own, the
\* payload's value when that is non-empty and the stored value otherwise; no
\* step turns a non-empty metadata field of a record empty or null.
C5_MetadataNonRegression ==
    [][ /\ (Validated /\ last'.body.valid) =>
              LET k == last'.req.key_value IN
              \A f \in MetadataFields :
                  keys'[k][f] = IF last'.req[f] # None /\ last'.req[f] # Some("")
                                THEN last'.req[f] ELSE keys[k][f]
        /\ \A k \in DOMAIN keys \cap DOMAIN keys' : \A f \in MetadataFields :
              (keys[k][f] # None /\ keys[k][f] # Some(""))
                  => (keys'[k][f] # None /\ keys'[k][f] # Some(""))
      ]_vars

\* a valid validate without os_version and with an empty cpu_info has kept
\* both stored values and replaced the machine name
C5_Witness ==
    /\ last.op = "validate"
    /\ last.body.valid
    /\ last.req.os_version = None
    /\ last.req.cpu_info = Some("")
    /\ last.req.machine_name = Some("pcB")
    /\ keys[last.req.key_value].os_version = Some("win10")
    /\ keys[last.req.key_value].cpu_info = Some("i7")
    /\ keys[last.req.key_value].machine_name = Some("pcB")

\* C6: validate always answers 200 with the valid discriminant; for a token
\* without a record the answer is valid=false, is_active=false,
\* expired_at=null, note "Key not found", and the table is unchanged.
C6_ValidateNeverErrors ==
    [][ Validated =>
          /\ last'.status = 200
          /\ last'.body.valid \in BOOLEAN
          /\ DOMAIN keys' = DOMAIN keys
          /\ last'.req.key_value \notin DOMAIN keys =>
                /\ last'.body = [valid |-> FALSE, is_active |-> FALSE,
                                 expired_at |-> None, note |-> Some("Key not found")]
                /\ keys' = keys
      ]_vars

\* an unknown token has just been validated while the table holds a record
C6_Witness ==
    /\ last.op = "validate"
    /\ last.req.key_value \notin DOMAIN keys
    /\ last.body.note = Some("Key not found")
    /\ DOMAIN keys # {}
    /\ Truthy(last.req.machine_hash)

KeyTypes == {"trial", "month", "year", "lifetime"}

\* C7: an admin's Issue with type trial, month, year or lifetime at time T adds
\* exactly one record, active, with every binding field and last_check null
\* and expired_at = T + 7, 30, 365 or 365000 days; an active key is answered
\* valid at every time up to and including its expired_at.
C7_IssueExpiry ==
    [][ /\ (last'.op = "create_key" /\ last'.caller = "admin"
                /\ last'.req.type \in KeyTypes) =>
              /\ last'.status = 200
              /\ LET k == last'.body.key_value
                     t == last'.req.type
                     days == CASE t = "trial" -> 7 [] t = "month" -> 30
                               [] t = "year" -> 365 [] OTHER -> 365000
                 IN
                 /\ k \notin DOMAIN keys
                 /\ DOMAIN keys' = DOMAIN keys \cup {k}
                 /\ \A j \in DOMAIN keys : keys'[j] = keys[j]
                 /\ keys'[k].is_active
                 /\ keys'[k].expired_at = Some(now + days)
                 /\ keys'[k].last_check = None
                 /\ \A f \in BindingFields : keys'[k][f] = None
        /\ (Validated /\ last'.req.key_value \in DOMAIN keys) =>
              LET record == keys[last'.req.key_value] IN
              (record.is_active /\ record.expired_at # None
                    /\ now <= record.expired_at[1])
                  => last'.body.valid
      ]_vars

\* a trial key has just been answered valid on the day it expires
C7_Witness ==
    /\ last.op = "validate"
    /\ last.body.valid
    /\ keys[last.req.key_value].expired_at = Some(now)
    /\ now = keys[last.req.key_value].created_at + 7

\* C8 as stated: every type string other than the four names is rejected with
\* 400 and nothing is stored.
C8_OtherStringsRejected ==
    [][ (last'.op = "create_key" /\ last'.caller = "admin"
            /\ last'.req.type \notin KeyTypes)
          => (last'.status = 400 /\ keys' = keys)
      ]_vars

\* C8, amended: a type that is none of the four names once surrounding
\* whitespace is trimmed and it is lower-cased is rejected with 400 and
\* nothing is stored.
C8_UnknownTypeRejected ==
    [][ (last'.op = "create_key" /\ last'.caller = "admin"
            /\ lower_strip(last'.req.type) \notin KeyTypes)
          => (last'.status = 400 /\ keys' = keys)
      ]_vars

\* an admin's Issue with type "weekly" has just been answered 400
C8_Witness ==
    /\ last.op = "create_key"
    /\ last.caller = "admin"
    /\ last.req.type = "weekly"
    /\ last.status = 400

\* C9: an admin's Update assigns is_active and note only when the request has
\* them and leaves every other column of the record, and every other record,
\* as it was; on a token without a record it answers 404 and changes nothing.
C9_UpdateIsPartial ==
    [][ (last'.op = "update_key" /\ last'.caller = "admin") =>
          LET k == last'.req.key_value
              p == last'.req.payload
          IN
          IF k \notin DOMAIN keys
          THEN last'.status = 404 /\ keys' = keys
          ELSE
              /\ last'.status = 200
              /\ DOMAIN keys' = DOMAIN keys
              /\ \A j \in DOMAIN keys \ {k} : keys'[j] = keys[j]
              /\ keys'[k].is_active =
                    IF p.is_active = None THEN keys[k].is_active ELSE p.is_active[1]
              /\ keys'[k].note = IF p.note = None THEN keys[k].note ELSE p.note
              /\ \A f \in BindingFields \cup {"created_at", "expired_at", "last_check"} :
                    keys'[k][f] = keys[k][f]
      ]_vars

\* an Update carrying only a note has just left a locked, bound key locked
C9_Witness ==
    /\ last.op = "update_key"
    /\ last.status = 200
    /\ last.req.payload.is_active = None
    /\ last.req.payload.note = Some("n2")
    /\ ~keys[last.req.key_value].is_active
    /\ keys[last.req.key_value].note = Some("n2")
    /\ Truthy(keys[last.req.key_value].machine_hash)

----------------------------------------------------------------------------
(* Properties of overlapping validate calls *)

\* C2: when validate calls carrying different non-empty hashes overlap on one
\* active, unexpired, unbound key, the fingerprint is bound once: when every
\* call has returned, each call answered valid was answered with the
\* machine_hash the record holds (no bound value is overwritten by the other
\* call, and no call is told a hash other than the stored one).
C2_AtomicFirstBind ==
    LET returned == {w \in Workers : sess[w].pc = "done" /\ sess[w].resp.valid} IN
    ( /\ \A w \in Workers : sess[w].pc \in {"idle", "done"}
      /\ \A w \in returned : Truthy(sess[w].payload.machine_hash) )
        => \A w \in returned :
              sess[w].resp.machine_hash = keys[sess[w].payload.key_value].machine_hash

\* two calls carrying H1 and H2 have both read the same unbound record
C2_Witness ==
    \E v, w \in Workers :
        /\ sess[v].pc = "assigned" /\ sess[w].pc = "assigned"
        /\ sess[v].payload.key_value = sess[w].payload.key_value
        /\ sess[v].loaded.machine_hash = None /\ sess[w].loaded.machine_hash = None
        /\ sess[v].payload.machine_hash = Some("H1")
        /\ sess[w].payload.machine_hash = Some("H2")

KeyAdminOps == {"create_key", "list_keys", "get_key", "update_key", "delete_key"}

\* C11: Issue, List, Get, Update and Delete of key records succeed only for the
\* admin: a request with a missing or invalid token, or from an authenticated
\* user who is not the admin, is answered 401 or 403 and leaves the key store
\* unchanged; validate needs no credential and is never answered 401 or 403.
C11_KeyOpsAdminOnly ==
    [][ /\ (last'.op \in KeyAdminOps /\ last'.caller # "admin")
            => (last'.status \in {401, 403} /\ keys' = keys /\ nextKey' = nextKey)
        /\ (last'.op \in KeyAdminOps /\ last'.caller = "admin")
            => last'.status \notin {401, 403}
        /\ last'.op = "validate" => (last'.caller = "none" /\ last'.status = 200)
      ]_vars

\* an authenticated non-admin has just been refused an update of a stored key
C11_Witness ==
    /\ last.op = "update_key"
    /\ last.caller = "user"
    /\ last.status = 403
    /\ 1 \in DOMAIN keys

\* C22: validate tests NotFound, Locked, Expired, Valid in this order and the
\* first match decides: an inactive record, expired or not, gives "Key is
\* locked" with is_active false; an active expired record gives "Key expired"
\* with is_active true; valid is true only for an existing, active, unexpired
\* record.
C22_FirstMatchWins ==
    [][ Validated =>
          LET k == last'.req.key_value
              r == last'.body
              found == k \in DOMAIN keys
              expired == found /\ keys[k].expired_at # None /\ keys[k].expired_at[1] < now
          IN /\ ~found => (r.note = Some("Key not found") /\ ~r.valid /\ ~r.is_active)
             /\ (found /\ ~keys[k].is_active)
                   => (r.note = Some("Key is locked") /\ ~r.valid /\ ~r.is_active)
             /\ (found /\ keys[k].is_active /\ expired)
                   => (r.note = Some("Key expired") /\ ~r.valid /\ r.is_active)
             /\ r.valid <=> (found /\ keys[k].is_active /\ ~expired)
      ]_vars

\* a key that is both deactivated and past its expiry has been answered
\* "Key is locked"
C22_Witness ==
    /\ last.op = "validate"
    /\ last.req.key_value \in DOMAIN keys
    /\ ~keys[last.req.key_value].is_active
    /\ keys[last.req.key_value].expired_at # None
    /\ keys[last.req.key_value].expired_at[1] < now
    /\ last.body.note = Some("Key is locked")

AnsweredExpired(k) ==
    last.op = "validate" /\ last.req.key_value = k /\ last.body.note = Some("Key expired")

AnsweredValid(k) ==
    last.op = "validate" /\ last.req.key_value = k /\ last.body.valid

\* C28: expired_at is fixed at issuance, no operation changes it, and once a
\* validate call has answered "Key expired" for a key no later validate call
\* for that key returns valid, whatever admin updates come in between.
C28_ExpiryPermanent ==
    /\ [][\A k \in DOMAIN keys \cap DOMAIN keys' :
             keys'[k].expired_at = keys[k].expired_at]_vars
    /\ \A k \in 1..MaxKeys : [](AnsweredExpired(k) => []~AnsweredValid(k))

\* a key that an admin update has touched and left active is answered
\* "Key expired"
C28_Witness ==
    /\ AnsweredExpired(1)
    /\ keys[1].note = Some("n2")
    /\ keys[1].is_active

----------------------------------------------------------------------------
(* Properties of the version registry *)

VersionWrites ==
    {"create_version", "update_version", "deactivate_version", "delete_version"}

\* C10: Publish, Patch, Deactivate and Delete of version records succeed only
\* for the admin: a call by anyone else is answered 401 or 403 and leaves the
\* version table as it was.
C10_VersionWritesAdminOnly ==
    [][ (last'.op \in VersionWrites /\ last'.caller # "admin")
          => (last'.status \in {401, 403} /\ versions' = versions)
      ]_vars

\* an authenticated user who is not the admin has just published a version
C10_Witness ==
    /\ last.op = "create_version"
    /\ last.caller = "user"
    /\ last.status = 200
    /\ \E i \in DOMAIN versions : versions[i].version = last.req.version

\* C12: Publish with a version string that is already in the table is answered
\* 400 and changes nothing, so the table never holds two rows with the same
\* version string.
C12_PublishDuplicateRejected ==
    [][ /\ ( /\ last'.op = "create_version"
             /\ last'.status \notin {401, 403}
             /\ \E i \in DOMAIN versions : versions[i].version = last'.req.version )
            => (last'.status = 400 /\ versions' = versions /\ nextVer' = nextVer)
        /\ \A i, j \in DOMAIN versions' :
              versions'[i].version = versions'[j].version => i = j
      ]_vars

\* a second Publish of a stored version string has just been refused
C12_Witness ==
    /\ last.op = "create_version"
    /\ last.status = 400
    /\ Cardinality({i \in DOMAIN versions : versions[i].version = last.req.version}) = 1

\* C13: parse_version maps a dotted version string to a 4-tuple of naturals,
\* missing trailing components being zero, and the tuples compare numerically
\* from the left in a total order: 1.2.0.0 < 1.2.1.0 < 2.0.0.0, 1.2 = 1.2.0.0,
\* 1.9.0.0 < 1.10.0.0.
C13_ParseVersionOrder ==
    (last.op = "parse_version" /\ \A i \in 1..3 : last.req[i] \in DottedVersions) =>
        LET a == last.req[1]   b == last.req[2]
            x == last.body[1][1]   y == last.body[2][1]   z == last.body[3][1]
        IN
        /\ \A i \in 1..3 : last.body[i] # None /\ last.body[i][1] \in [1..4 -> Nat]
        /\ a = V_1_2 => x = <<1, 2, 0, 0>>
        /\ (a = V_1_2 /\ b = V_1_2_0_0) => x = y
        /\ (a = V_1_2_0_0 /\ b = V_1_2_1_0) => tuple_lt(x, y)
        /\ (a = V_1_2_1_0 /\ b = V_2_0_0_0) => tuple_lt(x, y)
        /\ (a = V_1_9_0_0 /\ b = V_1_10_0_0) => tuple_lt(x, y)
        \* exactly one of <, =, > holds, and < is transitive
        /\ (tuple_lt(x, y) \/ x = y \/ tuple_lt(y, x))
        /\ ~(tuple_lt(x, y) /\ tuple_lt(y, x))
        /\ ~(tuple_lt(x, y) /\ x = y)
        /\ (tuple_lt(x, y) /\ tuple_lt(y, z)) => tuple_lt(x, z)
        \* numeric per component: the first differing component decides
        /\ tuple_lt(x, y) <=>
              \E i \in 1..4 : x[i] < y[i] /\ \A j \in 1..(i - 1) : x[j] = y[j]

\* 1.9.0.0, 1.10.0.0 and 1.2 have been parsed together
C13_Witness ==
    /\ last.op = "parse_version"
    /\ last.req = <<V_1_9_0_0, V_1_10_0_0, V_1_2>>
    /\ last.body = <<Some(<<1, 9, 0, 0>>), Some(<<1, 10, 0, 0>>), Some(<<1, 2, 0, 0>>)>>

----------------------------------------------------------------------------
(* Properties of the update gate and the statistics log *)

ActiveIds == {i \in DOMAIN versions : versions[i].is_active}

\* C14: a check with a dotted current version, made while an active row exists,
\* is answered from an active row of greatest release date: UpdateAvailable is
\* tuple(latest.version) > tuple(current), ForceUpdate is tuple(current) <
\* tuple(latest.min_required_version), UpdateType is "mandatory" when forced and
\* the row's update_type otherwise.  Latest 2.0.0.0 with minimum 1.5.0.0 and
\* current 1.0.0.0 gives true, true, mandatory; all three 1.0.0.0 gives false,
\* false.
C14_UpdateGate ==
    [][ ( /\ last'.op = "check_for_updates"
          /\ last'.req.currentVersion \in DottedVersions
          /\ ActiveIds # {} )
        => /\ last'.status = 200
           /\ \E i \in ActiveIds :
                 LET latest == versions[i]
                     cur == parse_version(last'.req.currentVersion)[1]
                     lat == parse_version(latest.version)[1]
                     min == parse_version(latest.min_required_version)[1]
                     r == last'.body
                 IN /\ \A j \in ActiveIds : versions[j].release_date <= latest.release_date
                    /\ r.latestVersion = latest.version
                    /\ r.minimumRequiredVersion = latest.min_required_version
                    /\ r.updateAvailable = tuple_lt(cur, lat)
                    /\ r.forceUpdate = tuple_lt(cur, min)
                    /\ r.updateType = IF r.forceUpdate THEN "mandatory" ELSE latest.update_type
                    /\ (lat = <<2, 0, 0, 0>> /\ min = <<1, 5, 0, 0>> /\ cur = <<1, 0, 0, 0>>)
                          => (r.updateAvailable /\ r.forceUpdate /\ r.updateType = "mandatory")
                    /\ (lat = <<1, 0, 0, 0>> /\ min = <<1, 0, 0, 0>> /\ cur = <<1, 0, 0, 0>>)
                          => (~r.updateAvailable /\ ~r.forceUpdate)
      ]_vars

\* a client at 1.5.0.0 has been offered 2.0.0.0 without being forced
C14_Witness ==
    /\ last.op = "check_for_updates"
    /\ last.status = 200
    /\ last.req.currentVersion = V_1_5_0_0
    /\ last.body.latestVersion = V_2_0_0_0
    /\ last.body.updateAvailable
    /\ ~last.body.forceUpdate
    /\ last.body.updateType = "recommended"

\* C15: every check call appends exactly one statistic row, action "check" and
\* status "success", with the request's machine hash and current version, in
\* every branch, the one taken when no active row exists included.
C15_CheckAlwaysLogged ==
    [][ last'.op = "check_for_updates"
          => /\ Len(stats') = Len(stats) + 1
             /\ SubSeq(stats', 1, Len(stats)) = stats
             /\ stats'[Len(stats')].action = "check"
             /\ stats'[Len(stats')].status = Some("success")
             /\ stats'[Len(stats')].machine_hash = last'.req.machineHash
             /\ stats'[Len(stats')].current_version = Some(last'.req.currentVersion)
      ]_vars

\* a check has been answered "no release" and the log is still empty
C15_Witness ==
    /\ last.op = "check_for_updates"
    /\ last.status = 200
    /\ last.body.notificationMessage = "no release"
    /\ stats = <<>>

\* C16: the statistics log is append-only: no operation changes or removes a
\* row, so the log after a step extends the log before it; deleting a version
\* removes none of its rows.
C16_StatsAppendOnly ==
    [][ /\ Len(stats') >= Len(stats)
        /\ SubSeq(stats', 1, Len(stats)) = stats
      ]_vars

\* a version with rows in the log has just been deleted
C16_Witness ==
    /\ last.op = "delete_version"
    /\ last.status = 200
    /\ \E i \in DOMAIN stats : stats[i].target_version = Some(last.body.version)

\* the id a request addresses a version row by
addressed_id(l) ==
    IF l.op \in {"update_version", "track_download"} THEN l.req.version_id ELSE l.req

ById == {"update_version", "deactivate_version", "delete_version",
         "download_version", "track_download"}

\* C18: Patch, Deactivate, Delete, download and download-tracked of an id that
\* is not in the table are answered 404 and leave the version table and the
\* statistics log unchanged.
C18_AbsentIdNotFound ==
    [][ ( /\ last'.op \in ById
          /\ last'.status \notin {401, 403}
          /\ addressed_id(last') \notin DOMAIN versions )
        => (last'.status = 404 /\ versions' = versions /\ stats' = stats)
      ]_vars

\* download-tracked of an absent id has been answered 400
C18_Witness ==
    /\ last.op = "track_download"
    /\ last.req.version_id \notin DOMAIN versions
    /\ last.status = 400

\* C19: GET /updates/latest is a pure read: it changes no version row and
\* appends no statistic row, two calls in a row give the same answer, and the
\* answer's download_count is the number of rows with action "download" and the
\* latest version as target_version, its install_count the number of rows with
\* action "install", status "success" and that target_version.
C19_LatestIsPureRead ==
    [][ last'.op = "get_latest_version"
          => /\ versions' = versions
             /\ stats' = stats
             /\ last.op = "get_latest_version" => last' = last
             /\ last'.status = 200 =>
                   /\ last'.body.id \in ActiveIds
                   /\ last'.body.version = versions[last'.body.id].version
                   /\ last'.body.download_count =
                         Cardinality({i \in DOMAIN stats :
                             /\ stats[i].action = "download"
                             /\ stats[i].target_version = Some(last'.body.version)})
                   /\ last'.body.install_count =
                         Cardinality({i \in DOMAIN stats :
                             /\ stats[i].action = "install"
                             /\ stats[i].status = Some("success")
                             /\ stats[i].target_version = Some(last'.body.version)})
      ]_vars

\* the latest version has been read with one download and one install counted
C19_Witness ==
    /\ last.op = "get_latest_version"
    /\ last.status = 200
    /\ last.body.download_count = 1
    /\ last.body.install_count = 1

InstallRows == {i \in DOMAIN stats : stats[i].action = "install"}

SuccessRows == {i \in InstallRows : stats[i].status = Some("success")}

\* C20 as stated: success_rate is successful install rows divided by all
\* install rows, 0 without install rows (success_rate is held in hundredths, so
\* a fraction f reads 100 * f).
C20_SuccessRateIsFraction ==
    (last.op = "get_update_statistics" /\ last.status = 200) =>
        IF InstallRows = {} THEN last.body.success_rate = 0
        ELSE last.body.success_rate * Cardinality(InstallRows)
                 = 100 * Cardinality(SuccessRows)

\* C20: success_rate is the percentage 100 * successful install rows / all
\* install rows, rounded to two decimals, and 0 without install rows.
C20_SuccessRateIsPercent ==
    (last.op = "get_update_statistics" /\ last.status = 200) =>
        LET t == Cardinality(InstallRows)
            d == last.body.success_rate * t - 10000 * Cardinality(SuccessRows)
        IN /\ last.body.total_installs = t
           /\ last.body.success_installs = Cardinality(SuccessRows)
           /\ IF t = 0 THEN last.body.success_rate = 0
              ELSE 2 * d <= t /\ -2 * d <= t

\* one install of three succeeded: 33.33
C20_Witness ==
    /\ last.op = "get_update_statistics"
    /\ last.status = 200
    /\ Cardinality(InstallRows) = 3
    /\ Cardinality(SuccessRows) = 1
    /\ last.body.success_rate = 3333

\* C23: while no version row is active (none published, or all deactivated or
\* deleted) a check is answered 200 with UpdateAvailable false, ForceUpdate
\* false and the request's CurrentVersion as LatestVersion and as
\* MinimumRequiredVersion, whatever string CurrentVersion is.
C23_NoActiveVersionEcho ==
    [][ (last'.op = "check_for_updates" /\ ActiveIds = {})
          => /\ last'.status = 200
             /\ ~last'.body.updateAvailable
             /\ ~last'.body.forceUpdate
             /\ last'.body.latestVersion = last'.req.currentVersion
             /\ last'.body.minimumRequiredVersion = last'.req.currentVersion
      ]_vars

\* a check with a current version that does not parse, made while the only
\* release is deactivated, has been answered with that string echoed
C23_Witness ==
    /\ last.op = "check_for_updates"
    /\ last.status = 200
    /\ last.req.currentVersion = V_1_x
    /\ last.body.latestVersion = V_1_x
    /\ DOMAIN versions # {}
    /\ ActiveIds = {}

StatWrites == {"log_download_started", "track_download", "download_version",
               "log_install_result"}

\* the version a statistics request addresses: the row of its id, or the
\* version string it carries
addressed_version(l) ==
    IF l.op = "track_download" THEN versions[l.req.version_id].version
    ELSE IF l.op = "download_version" THEN versions[l.req].version
    ELSE l.req.version

\* C25: each successful download-stats, download-tracked, versions/{id}/download
\* or install-stats call appends exactly one row: action "download" with status
\* "started", "web_tracked" or "web_started" respectively, or action "install"
\* with status "success" when success is true and "failed" otherwise; the row's
\* target_version is the addressed version.
C25_OneRowPerEvent ==
    [][ (last'.op \in StatWrites /\ last'.status = 200)
          => LET row == stats'[Len(stats')] IN
             /\ Len(stats') = Len(stats) + 1
             /\ SubSeq(stats', 1, Len(stats)) = stats
             /\ row.target_version = Some(addressed_version(last'))
             /\ last'.op = "log_download_started"
                   => (row.action = "download" /\ row.status = Some("started"))
             /\ last'.op = "track_download"
                   => (row.action = "download" /\ row.status = Some("web_tracked"))
             /\ last'.op = "download_version"
                   => (row.action = "download" /\ row.status = Some("web_started"))
             /\ last'.op = "log_install_result"
                   => /\ row.action = "install"
                      /\ row.status = Some(IF last'.req.success THEN "success" ELSE "failed")
      ]_vars

\* a failed install has been logged after a tracked download
C25_Witness ==
    /\ last.op = "log_install_result"
    /\ ~last.req.success
    /\ Len(stats) = 2
    /\ stats[1].status = Some("web_tracked")
    /\ stats[2].status = Some("failed")

\* C26: what check and GET /updates/latest give as latest is the active row
\* with the greatest version tuple: no other active row has a greater one,
\* whatever order the versions were published in.
C26_LatestIsGreatestVersion ==
    [][ /\ (last'.op = "check_for_updates" /\ last'.status = 200 /\ ActiveIds # {})
            => \A j \in ActiveIds :
                  ~tuple_lt(parse_version(last'.body.latestVersion)[1],
                            parse_version(versions[j].version)[1])
        /\ (last'.op = "get_latest_version" /\ last'.status = 200)
            => \A j \in ActiveIds :
                  ~tuple_lt(parse_version(last'.body.version)[1],
                            parse_version(versions[j].version)[1])
      ]_vars

\* 1.0.0.0, published a day after 2.0.0.0, is reported as latest while
\* 2.0.0.0 is active
C26_Witness ==
    /\ last.op = "check_for_updates"
    /\ last.status = 200
    /\ last.body.latestVersion = V_1_0_0_0
    /\ \E j \in ActiveIds : versions[j].version = V_2_0_0_0

\* C27: whenever check reports forceUpdate it also reports updateAvailable: no
\* client is forced to update when the latest version is not newer than its own.
C27_ForceImpliesAvailable ==
    [][ (last'.op = "check_for_updates" /\ last'.status = 200 /\ last'.body.forceUpdate)
        => last'.body.updateAvailable ]_vars

\* a client running the latest version 1.0.0.0, whose row asks for 1.5.0.0 at
\* least, is told the update is mandatory and that there is none
C27_Witness ==
    /\ last.op = "check_for_updates"
    /\ last.status = 200
    /\ last.req.currentVersion = V_1_0_0_0
    /\ last.body.latestVersion = V_1_0_0_0
    /\ last.body.minimumRequiredVersion = V_1_5_0_0
    /\ last.body.forceUpdate
    /\ ~last.body.updateAvailable
    /\ last.body.updateType = "mandatory"

\* C30: no two stored version rows denote the same point of the version
\* order: two distinct rows never parse to the same 4-tuple.
C30_StoredTuplesDistinct ==
    \A i, j \in DOMAIN versions :
        i # j => parse_version(versions[i].version) # parse_version(versions[j].version)

\* "1.2" and "1.2.0.0" are both stored, the second publish answered 200
C30_Witness ==
    /\ last.op = "create_version"
    /\ last.status = 200
    /\ \E i, j \in DOMAIN versions :
          /\ versions[i].version = V_1_2
          /\ versions[j].version = V_1_2_0_0
          /\ parse_version(V_1_2) = parse_version(V_1_2_0_0)

----------------------------------------------------------------------------
(* Properties of the password reset *)

\* the step just taken answered a verify-reset
Verified == last'.op = "verify_reset" /\ last'.req # None

\* record i answers to the email and code of the verify-reset just handled
Addressed(i) ==
    /\ otps[i].email = last'.req.email
    /\ otps[i].otp_code = last'.req.otp_code

\* record i can still be redeemed: not used, and not past its expiry
Redeemable(i) == ~otps[i].used /\ otps[i].expires_at >= now

\* the user row of the email has record i's pending hash, and i is used
AppliedFrom(i) ==
    /\ last'.status = 200
    /\ otps' = [otps EXCEPT ![i].used = TRUE]
    /\ \E u \in DOMAIN users :
          /\ users[u].email = otps[i].email
          /\ users' = [users EXCEPT ![u].password_hash = otps[i].pending_password_hash,
                                    ![u].updated_at = now]

\* the verify-reset succeeded and left record i's pending hash on the user row
PasswordFrom(i) ==
    /\ last'.status = 200
    /\ \E u \in DOMAIN users :
          /\ users[u].email = otps[i].email
          /\ users'[u].password_hash = otps[i].pending_password_hash

\* the mail of record i is dispatched in this step
SendStep(i) == mail[i] = "pending" /\ mail'[i] # "pending"

\* the mail goes out only for a committed row, a failure answers 500 and
\* leaves both tables as they were
SendAfterCommit ==
    /\ Len(mail') = Len(otps')
    /\ \A i \in DOMAIN mail' : i \notin DOMAIN mail => mail'[i] = "pending"
    /\ \A i \in DOMAIN mail :
          SendStep(i) =>
             /\ i \in DOMAIN otps
             /\ otps' = otps
             /\ users' = users
             /\ last'.op = "request_reset"
             /\ last'.status = IF mail'[i] = "failed" THEN 500 ELSE 200

\* no unused record of the same email and code is as new as record i or newer
NewestOfItsCode(i) ==
    \A j \in DOMAIN otps :
        (j # i /\ otps[j].email = otps[i].email /\ otps[j].otp_code = otps[i].otp_code
              /\ ~otps[j].used)
           => otps[j].created_at < otps[i].created_at

\* C21 as stated: the mail is sent only after the OTP row is committed, a
\* delivery failure is answered with an error and rolls nothing back, and a
\* verify-reset with the email and code of such a row, unused and unexpired,
\* applies that row's pending password.
C21_FailedRecordAppliesItsPassword ==
    [][ /\ SendAfterCommit
        /\ Verified =>
              \A i \in DOMAIN otps :
                 (mail[i] = "failed" /\ Addressed(i) /\ Redeemable(i)) => PasswordFrom(i)
      ]_vars

\* C21, amended: as above, but the verify-reset succeeds with the newest
\* unused row of that email and code; it applies the failed row's pending
\* password when no later request for the email drew the same code.
C21_FailedDeliveryKeepsRecord ==
    [][ /\ SendAfterCommit
        /\ Verified =>
              \A i \in DOMAIN otps :
                 (mail[i] = "failed" /\ Addressed(i) /\ Redeemable(i)) =>
                    /\ last'.status = 200
                    /\ NewestOfItsCode(i) => PasswordFrom(i)
      ]_vars

\* the mail of a row failed, and a verify-reset with its code then put its
\* pending password in place
C21_Witness ==
    /\ last.op = "verify_reset"
    /\ last.status = 200
    /\ \E i \in DOMAIN otps :
          /\ mail[i] = "failed"
          /\ otps[i].used
          /\ otps[i].email = last.req.email
          /\ otps[i].otp_code = last.req.otp_code
          /\ users["admin"].password_hash = otps[i].pending_password_hash
          /\ users["admin"].updated_at > otps[i].created_at

\* C29: a password hash changes only in a verify-reset that matches an
\* unused, unexpired OTP row of that user's email and code; the new hash is
\* that row's pending hash and the row is marked used in the same step; a
\* used row never changes again, and a verify-reset that no unused,
\* unexpired row matches changes neither table.
C29_ResetOnlyByValidOtp ==
    [][ /\ (users' # users \/ (Verified /\ last'.status = 200)) =>
              /\ Verified
              /\ \E i \in DOMAIN otps : Addressed(i) /\ Redeemable(i) /\ AppliedFrom(i)
        /\ \A i \in DOMAIN otps : otps[i].used => otps'[i] = otps[i]
        /\ (Verified /\ ~\E i \in DOMAIN otps : Addressed(i) /\ Redeemable(i)) =>
              /\ last'.status # 200
              /\ users' = users
              /\ otps' = otps
        /\ (Verified /\ last'.status # 200) => (users' = users /\ otps' = otps)
      ]_vars

\* the code that reset the password is presented again and refused
C29_Witness ==
    /\ last.op = "verify_reset"
    /\ last.status = 400
    /\ \E i \in DOMAIN otps :
          /\ otps[i].used
          /\ otps[i].email = last.req.email
          /\ otps[i].otp_code = last.req.otp_code
          /\ otps[i].expires_at >= now
          /\ users["admin"].password_hash = otps[i].pending_password_hash
    /\ \A i \in DOMAIN otps : otps[i].used

====
